---- MODULE Spec2Model ----
(***************************************************************************)
(* A model of binarytree/node.py: the Node heap, path-based insertion,     *)
(* breadth-first find, edit, delete, delete_tree and the dictionary codec. *)
(* Nodes live in a heap (address -> fields) so that two references to the  *)
(* same node are the same address; None is NULL.                           *)
(***************************************************************************)
EXTENDS Integers, Sequences, FiniteSets, TLC

VARIABLES heap, root, last

vars == <<heap, root, last>>

\* ---------------------------------------------------------------- bounds
\* Most nodes a tree may hold before the model stops inserting.
MaxNodes == 3
\* Node values are 1..MaxVal.
MaxVal == 3
\* Longest binary path ("L", "LR", ...) the model passes to add_node_by_path.
MaxBinLen == 2
\* Longest general path ("0", "0-1", ...) the model passes to add_node_by_path.
MaxGenLen == 3

NULL == 0

Values == 1..MaxVal

\* ------------------------------------------------------------ Node class
Node(value) == [value |-> value, left |-> NULL, right |-> NULL, children |-> <<>>]

\* A fresh address: the least one the heap does not hold.
NewId(h) ==
  CHOOSE i \in 1..(Cardinality(DOMAIN h) + 1) :
    i \notin DOMAIN h /\ \A j \in 1..(i - 1) : j \in DOMAIN h

EmptyHeap == [i \in {} |-> Node(1)]

\* Node.add_child: append, and keep left/right for the first two children.
AddChild(h, parent, child) ==
  LET kids == Append(h[parent].children, child) IN
    [h EXCEPT ![parent] =
       [@ EXCEPT !.children = kids,
                 !.left = IF Len(kids) = 1 THEN child ELSE @,
                 !.right = IF Len(kids) = 2 THEN child ELSE @]]

\* The nodes a reference holder of n can reach: through left, right, children.
Refs(h, n) ==
  ({h[n].left, h[n].right} \cup {h[n].children[i] : i \in 1..Len(h[n].children)})
    \ {NULL}

RECURSIVE ReachFrom(_, _)
ReachFrom(h, seen) ==
  LET more == seen \cup UNION {Refs(h, n) : n \in seen} IN
    IF more = seen THEN seen ELSE ReachFrom(h, more)

Reachable(h, r) == IF r = NULL THEN {} ELSE ReachFrom(h, {r})

\* Nodes no reference reaches are reclaimed by the runtime.
Collect(h, r) == [n \in Reachable(h, r) |-> h[n]]

\* ------------------------------------------------------------ path input
BinChars == {"L", "R", "l", "r", "X"}

\* str.upper() on the characters the model uses.
Upper(c) == CASE c = "l" -> "L" [] c = "r" -> "R" [] OTHER -> c

DigitChars == <<"0", "1", "2", "3", "4", "5", "6", "7", "8", "9">>

IsDigit(c) == \E i \in 1..10 : DigitChars[i] = c

DigitValue(c) == (CHOOSE i \in 1..10 : DigitChars[i] = c) - 1

Sep == "-"

\* A tree of MaxNodes nodes accepts the indices 0..MaxNodes-2.
GenChars == {DigitChars[i] : i \in 1..(MaxNodes - 1)} \cup {Sep, "x"}

SeqsUpTo(S, n) == UNION {[1..k -> S] : k \in 0..n}

BinPaths == SeqsUpTo(BinChars, MaxBinLen)

GenPaths == SeqsUpTo(GenChars, MaxGenLen)

\* str.split('-')
RECURSIVE Split(_)
Split(s) ==
  IF \A i \in 1..Len(s) : s[i] # Sep THEN <<s>>
  ELSE LET k == CHOOSE i \in 1..Len(s) :
                  s[i] = Sep /\ \A j \in 1..(i - 1) : s[j] # Sep
       IN <<SubSeq(s, 1, k - 1)>> \o Split(SubSeq(s, k + 1, Len(s)))

\* int(token) raises ValueError on the empty string and on a non-digit.
IntOk(tok) == tok # <<>> /\ \A i \in 1..Len(tok) : IsDigit(tok[i])

RECURSIVE IntOf(_)
IntOf(tok) ==
  IF tok = <<>> THEN 0
  ELSE 10 * IntOf(SubSeq(tok, 1, Len(tok) - 1)) + DigitValue(tok[Len(tok)])

\* ------------------------------------------------------- add_node_by_path
Outcome(status, h) == [status |-> status, heap |-> h]

\* The loop over indices[:-1] of general mode.
RECURSIVE NavigateGeneral(_, _, _)
NavigateGeneral(h, current, toks) ==
  IF toks = <<>> THEN [status |-> "ok", node |-> current]
  ELSE IF ~IntOk(Head(toks)) THEN [status |-> "InvalidPath", node |-> current]
  ELSE IF current = NULL THEN [status |-> "AttributeError", node |-> current]
  ELSE IF IntOf(Head(toks)) >= Len(h[current].children)
         THEN [status |-> "ChildNotFound", node |-> current]
  ELSE NavigateGeneral(h, h[current].children[IntOf(Head(toks)) + 1], Tail(toks))

\* add_node_by_path with the child attached before the index is checked.
AddGeneralAttachFirst(h, r, path, value) ==
  LET indices == Split(path)
      nav == NavigateGeneral(h, r, SubSeq(indices, 1, Len(indices) - 1))
      final == indices[Len(indices)]
      new_node == NewId(h)
  IN IF nav.status # "ok" THEN Outcome(nav.status, h)
     ELSE IF ~IntOk(final) THEN Outcome("InvalidPath", h)
     ELSE IF nav.node = NULL THEN Outcome("AttributeError", h)
     ELSE Outcome(IF IntOf(final) = Len(h[nav.node].children)
                    THEN "ok" ELSE "IndexOutOfRange",
                  AddChild(h @@ (new_node :> Node(value)), nav.node, new_node))

\* add_node_by_path accepting every index up to len(children).
AddGeneralUpTo(h, r, path, value) ==
  LET indices == Split(path)
      nav == NavigateGeneral(h, r, SubSeq(indices, 1, Len(indices) - 1))
      final == indices[Len(indices)]
      new_node == NewId(h)
  IN IF nav.status # "ok" THEN Outcome(nav.status, h)
     ELSE IF ~IntOk(final) THEN Outcome("InvalidPath", h)
     ELSE IF nav.node = NULL THEN Outcome("AttributeError", h)
     ELSE IF IntOf(final) <= Len(h[nav.node].children)
            THEN Outcome("ok", AddChild(h @@ (new_node :> Node(value)), nav.node, new_node))
     ELSE Outcome("IndexOutOfRange", h)

AddGeneral(h, r, path, value) ==
  LET indices == Split(path)
      nav == NavigateGeneral(h, r, SubSeq(indices, 1, Len(indices) - 1))
      final == indices[Len(indices)]
      new_node == NewId(h)
  IN IF nav.status # "ok" THEN Outcome(nav.status, h)
     ELSE IF ~IntOk(final) THEN Outcome("InvalidPath", h)
     ELSE IF nav.node = NULL THEN Outcome("AttributeError", h)
     ELSE IF IntOf(final) = Len(h[nav.node].children)
            THEN Outcome("ok", AddChild(h @@ (new_node :> Node(value)), nav.node, new_node))
     ELSE Outcome("IndexOutOfRange", h)

\* A walk that takes every direction other than L for R.
RECURSIVE NavigateBinaryElseRight(_, _, _)
NavigateBinaryElseRight(h, current, dirs) ==
  IF dirs = <<>> THEN [status |-> "ok", node |-> current]
  ELSE IF Upper(Head(dirs)) = "L" THEN
         IF h[current].left = NULL THEN [status |-> "PathBroken", node |-> current]
         ELSE NavigateBinaryElseRight(h, h[current].left, Tail(dirs))
  ELSE IF h[current].right = NULL THEN [status |-> "PathBroken", node |-> current]
  ELSE NavigateBinaryElseRight(h, h[current].right, Tail(dirs))

\* The loop over path[:-1] of binary mode.
RECURSIVE NavigateBinary(_, _, _)
NavigateBinary(h, current, dirs) ==
  IF dirs = <<>> THEN [status |-> "ok", node |-> current]
  ELSE IF Upper(Head(dirs)) = "L" THEN
         IF h[current].left = NULL THEN [status |-> "PathBroken", node |-> current]
         ELSE NavigateBinary(h, h[current].left, Tail(dirs))
  ELSE IF Upper(Head(dirs)) = "R" THEN
         IF h[current].right = NULL THEN [status |-> "PathBroken", node |-> current]
         ELSE NavigateBinary(h, h[current].right, Tail(dirs))
  ELSE [status |-> "InvalidDirection", node |-> current]

\* The attach with no placeholder appended when R comes first.
AttachBinaryNoPlaceholder(h, current, last_direction, value) ==
  LET new_node == NewId(h)
      h1 == h @@ (new_node :> Node(value))
  IN IF last_direction = "L" THEN
       IF h[current].left # NULL THEN Outcome("DuplicateNode", h)
       ELSE Outcome("ok",
              [h1 EXCEPT ![current] =
                 [@ EXCEPT !.left = new_node,
                           !.children = Append(@, new_node)]])
     ELSE IF last_direction = "R" THEN
       IF h[current].right # NULL THEN Outcome("DuplicateNode", h)
       ELSE Outcome("ok",
              [h1 EXCEPT ![current] =
                 [@ EXCEPT !.right = new_node,
                           !.children = Append(@, new_node)]])
     ELSE Outcome("InvalidDirection", h)

\* The attach whose R branch assigns current.left.
AttachBinaryWrongField(h, current, last_direction, value) ==
  LET new_node == NewId(h)
      h1 == h @@ (new_node :> Node(value))
  IN IF last_direction = "L" THEN
       IF h[current].left # NULL THEN Outcome("DuplicateNode", h)
       ELSE Outcome("ok",
              [h1 EXCEPT ![current] =
                 [@ EXCEPT !.left = new_node,
                           !.children = Append(@, new_node)]])
     ELSE IF last_direction = "R" THEN
       IF h[current].right # NULL THEN Outcome("DuplicateNode", h)
       ELSE Outcome("ok",
              [h1 EXCEPT ![current] =
                 [@ EXCEPT !.left = new_node,
                           !.children =
                              Append(IF Len(@) = 0 THEN <<NULL>> ELSE @, new_node)]])
     ELSE Outcome("InvalidDirection", h)

\* The attach whose R branch tests current.left for the duplicate.
AttachBinaryWrongCheck(h, current, last_direction, value) ==
  LET new_node == NewId(h)
      h1 == h @@ (new_node :> Node(value))
  IN IF last_direction = "L" THEN
       IF h[current].left # NULL THEN Outcome("DuplicateNode", h)
       ELSE Outcome("ok",
              [h1 EXCEPT ![current] =
                 [@ EXCEPT !.left = new_node,
                           !.children = Append(@, new_node)]])
     ELSE IF last_direction = "R" THEN
       IF h[current].left # NULL THEN Outcome("DuplicateNode", h)
       ELSE Outcome("ok",
              [h1 EXCEPT ![current] =
                 [@ EXCEPT !.right = new_node,
                           !.children =
                              Append(IF Len(@) = 0 THEN <<NULL>> ELSE @, new_node)]])
     ELSE Outcome("InvalidDirection", h)

\* "Add at final position": the attach of binary mode.
AttachBinary(h, current, last_direction, value) ==
  LET new_node == NewId(h)
      h1 == h @@ (new_node :> Node(value))
  IN IF last_direction = "L" THEN
       IF h[current].left # NULL THEN Outcome("DuplicateNode", h)
       ELSE Outcome("ok",
              [h1 EXCEPT ![current] =
                 [@ EXCEPT !.left = new_node,
                           !.children = Append(@, new_node)]])
     ELSE IF last_direction = "R" THEN
       IF h[current].right # NULL THEN Outcome("DuplicateNode", h)
       ELSE Outcome("ok",
              [h1 EXCEPT ![current] =
                 [@ EXCEPT !.right = new_node,
                           !.children =
                              Append(IF Len(@) = 0 THEN <<NULL>> ELSE @, new_node)]])
     ELSE Outcome("InvalidDirection", h)

AddBinary(h, r, path, value) ==
  LET nav == NavigateBinary(h, r, SubSeq(path, 1, Len(path) - 1)) IN
    IF nav.status # "ok" THEN Outcome(nav.status, h)
    ELSE AttachBinary(h, nav.node, Upper(path[Len(path)]), value)

AddNodeByPath(h, r, path, value, is_general) ==
  IF r = NULL THEN Outcome("NullRoot", h)
  ELSE IF path = <<>> THEN Outcome("InvalidPath", h)
  ELSE IF is_general THEN AddGeneral(h, r, path, value)
  ELSE AddBinary(h, r, path, value)

\* ------------------------------------------------------------- find_node
\* One pass of the while loop per call; the deque is a sequence.
RECURSIVE FindLoop(_, _, _)
FindLoop(h, queue, value) ==
  IF queue = <<>> THEN [status |-> "ok", node |-> NULL]
  ELSE LET current == Head(queue) IN
    IF current = NULL THEN [status |-> "AttributeError", node |-> NULL]
    ELSE IF h[current].value = value THEN [status |-> "ok", node |-> current]
    ELSE IF Len(h[current].children) > 0
           THEN FindLoop(h, Tail(queue) \o h[current].children, value)
    ELSE FindLoop(h,
           Tail(queue)
             \o (IF h[current].left # NULL THEN <<h[current].left>> ELSE <<>>)
             \o (IF h[current].right # NULL THEN <<h[current].right>> ELSE <<>>),
           value)

FindNode(h, r, value) ==
  IF r = NULL THEN [status |-> "ok", node |-> NULL] ELSE FindLoop(h, <<r>>, value)

\* ------------------------------------------------------------- edit_node
\* An edit that rewrites every node holding old_value.
EditNodeEvery(h, r, old_value, new_value) ==
  LET found == FindNode(h, r, old_value) IN
    IF found.status # "ok" THEN [status |-> found.status, heap |-> h, ret |-> FALSE]
    ELSE IF found.node # NULL
           THEN [status |-> "ok",
                 heap |-> [n \in DOMAIN h |->
                             IF h[n].value = old_value
                               THEN [h[n] EXCEPT !.value = new_value] ELSE h[n]],
                 ret |-> TRUE]
    ELSE [status |-> "ok", heap |-> h, ret |-> FALSE]

EditNode(h, r, old_value, new_value) ==
  LET found == FindNode(h, r, old_value) IN
    IF found.status # "ok" THEN [status |-> found.status, heap |-> h, ret |-> FALSE]
    ELSE IF found.node # NULL
           THEN [status |-> "ok",
                 heap |-> [h EXCEPT ![found.node].value = new_value],
                 ret |-> TRUE]
    ELSE [status |-> "ok", heap |-> h, ret |-> FALSE]

\* ----------------------------------------------------------- delete_node
\* Removal that moves the last entry into the freed position.
PopSwap(s, i) ==
  IF i + 1 = Len(s) THEN SubSeq(s, 1, Len(s) - 1)
  ELSE [k \in 1..(Len(s) - 1) |-> IF k = i + 1 THEN s[Len(s)] ELSE s[k]]

\* list.pop(i), i counted from 0 as in the source.
Pop(s, i) == SubSeq(s, 1, i) \o SubSeq(s, i + 2, Len(s))

\* "Update binary tree pointers" after children.pop(i).
Resync(node, i) ==
  LET kids == Pop(node.children, i) IN
    [node EXCEPT
       !.children = kids,
       !.left = IF i = 0 /\ Len(kids) >= 1 THEN kids[1]
                ELSE IF i = 0 THEN NULL ELSE @,
       !.right = IF i <= 1 /\ Len(kids) >= 2 THEN kids[2]
                 ELSE IF i = 1 THEN NULL ELSE @]

\* Where the for loop over current.children stops: the first child that is
\* None (child.value raises) or holds the value; 0 when it runs to the end.
StopAt(h, kids, value) ==
  IF \E i \in 1..Len(kids) : kids[i] = NULL \/ h[kids[i]].value = value
    THEN CHOOSE i \in 1..Len(kids) :
           /\ kids[i] = NULL \/ h[kids[i]].value = value
           /\ \A j \in 1..(i - 1) : kids[j] # NULL /\ h[kids[j]].value # value
    ELSE 0

RECURSIVE DeleteLoop(_, _, _, _)
DeleteLoop(h, r, queue, value) ==
  IF queue = <<>> THEN [status |-> "ok", heap |-> h, root |-> r, removed |-> NULL]
  ELSE LET current == Head(queue)
           kids == h[current].children
           stop == StopAt(h, kids, value)
       IN
    IF stop # 0 /\ kids[stop] = NULL
      THEN [status |-> "AttributeError", heap |-> h, root |-> r, removed |-> NULL]
    ELSE IF stop # 0
      THEN [status |-> "ok",
            heap |-> [h EXCEPT ![current] = Resync(@, stop - 1)],
            root |-> r, removed |-> kids[stop]]
    ELSE IF Len(kids) = 0 THEN
      IF h[current].left # NULL /\ h[h[current].left].value = value
        THEN [status |-> "ok", heap |-> [h EXCEPT ![current].left = NULL],
              root |-> r, removed |-> h[current].left]
      ELSE IF h[current].right # NULL /\ h[h[current].right].value = value
        THEN [status |-> "ok", heap |-> [h EXCEPT ![current].right = NULL],
              root |-> r, removed |-> h[current].right]
      ELSE DeleteLoop(h, r,
             Tail(queue)
               \o (IF h[current].left # NULL THEN <<h[current].left>> ELSE <<>>)
               \o (IF h[current].right # NULL THEN <<h[current].right>> ELSE <<>>),
             value)
    ELSE DeleteLoop(h, r, Tail(queue) \o kids, value)

\* delete_node without the "if deleting root" test.
DeleteNodeSearchOnly(h, r, value) ==
  IF r = NULL THEN [status |-> "ok", heap |-> h, root |-> NULL, removed |-> NULL]
  ELSE DeleteLoop(h, r, <<r>>, value)

DeleteNode(h, r, value) ==
  IF r = NULL THEN [status |-> "ok", heap |-> h, root |-> NULL, removed |-> NULL]
  ELSE IF h[r].value = value
         THEN [status |-> "ok", heap |-> h, root |-> NULL, removed |-> r]
  ELSE DeleteLoop(h, r, <<r>>, value)

\* ----------------------------------------------------------- delete_tree
\* The nodes the recursion visits: root and everything under children lists.
RECURSIVE Visited(_, _)
Visited(h, seen) ==
  LET more == seen \cup
        (UNION {{h[n].children[i] : i \in 1..Len(h[n].children)} : n \in seen}
           \ {NULL})
  IN IF more = seen THEN seen ELSE Visited(h, more)

\* delete_tree that clears the children list and leaves left and right.
DeleteTreeListOnly(h, r) ==
  IF r = NULL THEN h
  ELSE [n \in DOMAIN h |->
          IF n \in Visited(h, {r}) THEN [h[n] EXCEPT !.children = <<>>] ELSE h[n]]

DeleteTree(h, r) ==
  IF r = NULL THEN h
  ELSE [n \in DOMAIN h |->
          IF n \in Visited(h, {r})
            THEN [h[n] EXCEPT !.children = <<>>, !.left = NULL, !.right = NULL]
            ELSE h[n]]

\* --------------------------------------------------------- document codec
\* A document is None or a dict; a dict holds its keys in items.
NoneDoc == [kind |-> "none"]

Dict(items) == [kind |-> "dict", items |-> items]

\* _tree_to_dict
RECURSIVE TreeToDict(_, _)
TreeToDict(h, r) ==
  IF r = NULL THEN NoneDoc
  ELSE Dict(("value" :> [kind |-> "scalar", v |-> h[r].value])
            @@ (IF h[r].left # NULL
                  THEN "left" :> TreeToDict(h, h[r].left) ELSE <<>>)
            @@ (IF h[r].right # NULL
                  THEN "right" :> TreeToDict(h, h[r].right) ELSE <<>>))

\* _dict_to_tree that reads the right subtree from the 'left' key.
RECURSIVE DictToTreeLeftTwice(_, _)
DictToTreeLeftTwice(h, tree_dict) ==
  IF tree_dict.kind = "none" THEN [heap |-> h, node |-> NULL]
  ELSE IF tree_dict.kind # "dict" \/ "value" \notin DOMAIN tree_dict.items
         THEN [heap |-> h, node |-> NULL]
  ELSE LET items == tree_dict.items
           id == NewId(h)
           h0 == h @@ (id :> Node(items["value"].v))
           l == IF "left" \in DOMAIN items
                  THEN DictToTreeLeftTwice(h0, items["left"])
                  ELSE [heap |-> h0, node |-> h0[id].left]
           h1 == [l.heap EXCEPT ![id].left = l.node]
           r == IF "left" \in DOMAIN items
                  THEN DictToTreeLeftTwice(h1, items["left"])
                  ELSE [heap |-> h1, node |-> h1[id].right]
       IN [heap |-> [r.heap EXCEPT ![id].right = r.node], node |-> id]

\* _dict_to_tree, building into heap h; node is the root it returns.
RECURSIVE DictToTree(_, _)
DictToTree(h, tree_dict) ==
  IF tree_dict.kind = "none" THEN [heap |-> h, node |-> NULL]
  ELSE IF tree_dict.kind # "dict" \/ "value" \notin DOMAIN tree_dict.items
         THEN [heap |-> h, node |-> NULL]
  ELSE LET items == tree_dict.items
           id == NewId(h)
           h0 == h @@ (id :> Node(items["value"].v))
           l == IF "left" \in DOMAIN items
                  THEN DictToTree(h0, items["left"])
                  ELSE [heap |-> h0, node |-> h0[id].left]
           h1 == [l.heap EXCEPT ![id].left = l.node]
           r == IF "right" \in DOMAIN items
                  THEN DictToTree(h1, items["right"])
                  ELSE [heap |-> h1, node |-> h1[id].right]
       IN [heap |-> [r.heap EXCEPT ![id].right = r.node], node |-> id]

\* tree_to_yaml then build_tree_from_yaml: the tree the file gives back.
Reload(h, r) == DictToTree(EmptyHeap, TreeToDict(h, r))

\* ---------------------------------------------------------------- state
Init ==
  /\ \E v \in Values : heap = (1 :> Node(v))
  /\ root = 1
  /\ last = [op |-> "create", status |-> "ok", node |-> 1]

\* root = create_tree(value), once the caller holds no tree.
CreateTree ==
  /\ root = NULL
  /\ \E v \in Values : heap' = (1 :> Node(v))
  /\ root' = 1
  /\ last' = [op |-> "create", status |-> "ok", node |-> 1]

\* The values to try with a path: a call that raises never reads value, so one
\* value stands for all of them there.
ValuesRead(path, is_general) ==
  IF AddNodeByPath(heap, root, path, MaxVal, is_general).status = "ok"
    THEN Values ELSE {MaxVal}

\* add_node_by_path(root, path, value); last.node is the node it created.
InsertBinary ==
  \E path \in BinPaths : \E value \in ValuesRead(path, FALSE) :
    LET out == AddNodeByPath(heap, root, path, value, FALSE) IN
      /\ Cardinality(DOMAIN out.heap) <= MaxNodes
      /\ heap' = out.heap
      /\ root' = root
      /\ last' = [op |-> "insert_binary", status |-> out.status,
                  node |-> IF out.status = "ok" THEN NewId(heap) ELSE NULL]

\* add_node_by_path(root, path, value, is_general=True)
InsertGeneral ==
  \E path \in GenPaths : \E value \in ValuesRead(path, TRUE) :
    LET out == AddNodeByPath(heap, root, path, value, TRUE) IN
      /\ Cardinality(DOMAIN out.heap) <= MaxNodes
      /\ heap' = out.heap
      /\ root' = root
      /\ last' = [op |-> "insert_general", status |-> out.status,
                  node |-> IF out.status = "ok" THEN NewId(heap) ELSE NULL]

\* find_node(root, value); last.node is the node it returned.
Find ==
  \E value \in Values :
    LET out == FindNode(heap, root, value) IN
      /\ UNCHANGED <<heap, root>>
      /\ last' = [op |-> "find", status |-> out.status, node |-> out.node]

\* edit_node(root, old_value, new_value); last.node is the node it edited.
Edit ==
  \E old_value \in Values, new_value \in Values :
    LET out == EditNode(heap, root, old_value, new_value) IN
      /\ heap' = out.heap
      /\ root' = root
      /\ last' = [op |-> "edit", status |-> out.status,
                  node |-> IF out.ret THEN FindNode(heap, root, old_value).node
                           ELSE NULL]

\* root = delete_node(root, value); an exception leaves root as it was.
Delete ==
  \E value \in Values :
    LET out == DeleteNode(heap, root, value) IN
      /\ heap' = Collect(out.heap, out.root)
      /\ root' = out.root
      /\ last' = [op |-> "delete", status |-> out.status, node |-> out.removed]

\* delete_tree(root); the caller still holds root.
Clear ==
  /\ heap' = Collect(DeleteTree(heap, root), root)
  /\ root' = root
  /\ last' = [op |-> "delete_tree", status |-> "ok", node |-> root]

\* tree_to_yaml(root, f); root = build_tree_from_yaml(f)
RoundTrip ==
  LET out == Reload(heap, root) IN
    /\ Cardinality(DOMAIN out.heap) <= MaxNodes
    /\ heap' = out.heap
    /\ root' = out.node
    /\ last' = [op |-> "reload", status |-> "ok", node |-> out.node]

Next ==
  \/ CreateTree
  \/ InsertBinary
  \/ InsertGeneral
  \/ Find
  \/ Edit
  \/ Delete
  \/ Clear
  \/ RoundTrip

Spec == Init /\ [][Next]_vars

\* A tree built by binary inserts alone, and then one further operation.
BuiltBinary == last.op \in {"create", "insert_binary"}

NextBinary ==
  \/ BuiltBinary /\ InsertBinary
  \/ BuiltBinary /\ Find
  \/ BuiltBinary /\ Edit
  \/ BuiltBinary /\ Delete
  \/ BuiltBinary /\ Clear
  \/ BuiltBinary /\ RoundTrip

SpecBinary == Init /\ [][NextBinary]_vars

\* A tree built by inserts of either mode, and then one further operation.
BuiltByInserts == last.op \in {"create", "insert_binary", "insert_general"}

NextInserts ==
  \/ BuiltByInserts /\ InsertBinary
  \/ BuiltByInserts /\ InsertGeneral
  \/ BuiltByInserts /\ Find
  \/ BuiltByInserts /\ Edit
  \/ BuiltByInserts /\ Delete
  \/ BuiltByInserts /\ Clear
  \/ BuiltByInserts /\ RoundTrip

SpecInserts == Init /\ [][NextInserts]_vars

\* Any sequence of inserts, edits and deletes on the tree of a single root.
NextMutations ==
  \/ InsertBinary
  \/ InsertGeneral
  \/ Edit
  \/ Delete

SpecMutations == Init /\ [][NextMutations]_vars

\* ------------------------------------------------------ reading a tree
\* root.left.right...: follow a path of L/R (either case) through left/right.
RECURSIVE Walk(_, _, _)
Walk(h, n, path) ==
  IF n = NULL \/ path = <<>> THEN n
  ELSE Walk(h,
            IF Upper(Head(path)) = "L" THEN h[n].left
            ELSE IF Upper(Head(path)) = "R" THEN h[n].right
            ELSE NULL,
            Tail(path))

\* Every left/right position a tree of the model can hold, and one level more.
Positions == SeqsUpTo({"L", "R"}, MaxNodes)

LiveNodes == Reachable(heap, root)

DistinctValues ==
  \A m \in LiveNodes, n \in LiveNodes : m # n => heap[m].value # heap[n].value

\* ------------------------------------------------------------------ C1
\* C1: in a tree built from a single root by successful binary inserts, every
\* node's children[0], when it holds a node, is the node's left, and its
\* children[1], when it holds a node, is the node's right.
C1_DualRepresentation ==
  BuiltBinary =>
    \A n \in DOMAIN heap :
      LET kids == heap[n].children IN
        /\ (Len(kids) >= 1 /\ kids[1] # NULL) => kids[1] = heap[n].left
        /\ (Len(kids) >= 2 /\ kids[2] # NULL) => kids[2] = heap[n].right

\* R was inserted before L: the placeholder holds index 0, right index 1.
C1_Witness ==
  /\ BuiltBinary
  /\ \E n \in DOMAIN heap :
       /\ Len(heap[n].children) = 3
       /\ heap[n].children[1] = NULL
       /\ heap[n].left # NULL
       /\ heap[n].right # NULL

\* ------------------------------------------------------------------ C2
\* C2: in a tree built from a single root by successful inserts of either
\* mode, find_node returns, for the value of every node of the tree, a node
\* holding that value.
C2_FindAfterInsert ==
  BuiltByInserts =>
    \A n \in LiveNodes :
      LET found == FindNode(heap, root, heap[n].value) IN
        /\ found.status = "ok"
        /\ found.node # NULL
        /\ heap[found.node].value = heap[n].value

\* ------------------------------------------------------------------ C3
\* The nodes of the subtree that n owns, n included.
Subtree(h, n) == ReachFrom(h, {n})

\* C3: in a tree built by binary inserts with pairwise distinct values,
\* delete_node on the value held at a non-root position leaves that position
\* empty, and every node outside the removed subtree keeps its value.
C3_DeleteEmptiesSlot ==
  (BuiltBinary /\ DistinctValues) =>
    \A path \in Positions :
      LET n == Walk(heap, root, path)
          out == DeleteNode(heap, root, heap[n].value)
      IN (path # <<>> /\ n # NULL) =>
           /\ out.status = "ok"
           /\ out.root = root
           /\ Walk(out.heap, out.root, path) = NULL
           /\ \A m \in LiveNodes \ Subtree(heap, n) :
                out.heap[m].value = heap[m].value

\* ------------------------------------------------------------------ C4
\* The child slots of the tree that hold node m: (parent, "left" or "right")
\* for the binary view.
SlotsOf(m) ==
  {<<n, "left">> : n \in {k \in LiveNodes : heap[k].left = m}}
    \cup {<<n, "right">> : n \in {k \in LiveNodes : heap[k].right = m}}

\* C4: after any sequence of inserts, edits and deletes no node is held by
\* two child slots: left and right of a node are never the same node, and
\* with a non-empty children list left and right are nodes of that list.
C4_ExclusiveOwnership ==
  /\ \A m \in LiveNodes : Cardinality(SlotsOf(m)) <= 1
  /\ \A n \in LiveNodes :
       LET kids == {heap[n].children[i] : i \in 1..Len(heap[n].children)} IN
         /\ heap[n].left # NULL => heap[n].left # heap[n].right
         /\ heap[n].children # <<>> =>
              /\ heap[n].left \in kids \cup {NULL}
              /\ heap[n].right \in kids \cup {NULL}

\* ------------------------------------------------------------------ C5
InsertOps == {"insert_binary", "insert_general"}

\* C5: a call of add_node_by_path that raises leaves the tree as it was:
\* every node's value, left, right and children, and the set of nodes.
C5_InsertErrorAtomic ==
  [][(last'.op \in InsertOps /\ last'.status # "ok")
       => (heap' = heap /\ root' = root)]_vars

\* A general insert was refused for its index on a tree that has children.
C5_Witness ==
  /\ last.op = "insert_general"
  /\ last.status = "IndexOutOfRange"
  /\ Cardinality(DOMAIN heap) >= 2

\* ------------------------------------------------------------------ C6
\* C6: on every tree that inserts and deletes can build, find_node returns
\* a node or None and edit_node returns True or False; neither raises.
C6_FindEditNeverRaise ==
  last.op \in InsertOps \cup {"create", "delete"} =>
    /\ \A v \in Values : FindNode(heap, root, v).status = "ok"
    /\ \A old \in Values, new \in Values :
         EditNode(heap, root, old, new).status = "ok"

\* ------------------------------------------------------------------ C7
\* Both trees hold a node at the position, with one value, or neither does.
SameAt(h1, r1, h2, r2, pos) ==
  LET a == Walk(h1, r1, pos)
      b == Walk(h2, r2, pos)
  IN IF a = NULL \/ b = NULL THEN a = NULL /\ b = NULL
     ELSE h1[a].value = h2[b].value

\* C7: the tree that _dict_to_tree builds from _tree_to_dict(T) holds the
\* values of T at the left/right positions of T, and nodes nowhere else.
C7_RoundTrip ==
  LET out == Reload(heap, root) IN
    \A pos \in Positions : SameAt(heap, root, out.heap, out.node, pos)

\* A tree with a left and a right child went through the document and back.
C7_Witness ==
  /\ last.op = "reload"
  /\ root # NULL
  /\ heap[root].left # NULL
  /\ heap[root].right # NULL
  /\ heap[root].left # heap[root].right

\* ------------------------------------------------------------------ C8
\* C8: when a binary insert succeeds, the path walked from root through
\* left and right, in either case of the letters, ends on the node the call
\* created, which holds the inserted value.
C8_InsertThenWalk ==
  \A path \in BinPaths, value \in Values :
    LET out == AddNodeByPath(heap, root, path, value, FALSE)
        n == Walk(out.heap, root, path)
    IN out.status = "ok" =>
         /\ n # NULL
         /\ n \notin DOMAIN heap
         /\ out.heap[n].value = value

\* A binary insert with a two-step path succeeded.
C8_Witness ==
  /\ last.op = "insert_binary"
  /\ last.status = "ok"
  /\ \E path \in BinPaths : Len(path) = 2 /\ Walk(heap, root, path) = last.node

\* ------------------------------------------------------------------ C9
\* The fields of the nodes of h are the same in h2, but for a slot that was
\* empty in h.
NothingOverwritten(h, h2) ==
  \A n \in DOMAIN h :
    /\ h2[n].value = h[n].value
    /\ h[n].left # NULL => h2[n].left = h[n].left
    /\ h[n].right # NULL => h2[n].right = h[n].right

\* C9: a binary insert whose last step is L is refused as a duplicate when
\* the parent's left is set, and one whose last step is R when the parent's
\* right is set; an insert that succeeded is refused when repeated, and no
\* insert replaces a node the tree holds.
C9_BinaryDuplicateRejected ==
  \A path \in BinPaths \ {<<>>}, value \in Values :
    LET parent == Walk(heap, root, SubSeq(path, 1, Len(path) - 1))
        step == Upper(path[Len(path)])
        out == AddNodeByPath(heap, root, path, value, FALSE)
    IN (root # NULL /\ parent # NULL) =>
         /\ (step = "L" /\ heap[parent].left # NULL)
              => (out.status = "DuplicateNode" /\ out.heap = heap)
         /\ (step = "R" /\ heap[parent].right # NULL)
              => (out.status = "DuplicateNode" /\ out.heap = heap)
         /\ out.status = "ok" =>
              /\ NothingOverwritten(heap, out.heap)
              /\ \A again \in Values :
                   AddNodeByPath(out.heap, root, path, again, FALSE).status
                     = "DuplicateNode"

\* An insert at R was refused while the parent has no left child.
C9_Witness ==
  /\ last.op = "insert_binary"
  /\ last.status = "DuplicateNode"
  /\ heap[root].left = NULL
  /\ heap[root].right # NULL
  /\ heap[heap[root].right].left = NULL
  /\ heap[heap[root].right].right = NULL

\* ----------------------------------------------------------------- C10
\* C10: a general insert whose path resolves to a parent node succeeds
\* exactly when its final index is the number of children of that parent;
\* then the new node is appended and every child keeps its index; with any
\* other final index the call is refused as out of range.
C10_GeneralAppendOnly ==
  \A path \in GenPaths \ {<<>>} :
    LET indices == Split(path)
        nav == NavigateGeneral(heap, root, SubSeq(indices, 1, Len(indices) - 1))
        final == indices[Len(indices)]
    IN (root # NULL /\ nav.status = "ok" /\ nav.node # NULL /\ IntOk(final)) =>
         \A value \in Values :
           LET out == AddNodeByPath(heap, root, path, value, TRUE)
               kids == heap[nav.node].children
           IN IF IntOf(final) = Len(kids)
                THEN /\ out.status = "ok"
                     /\ out.heap[nav.node].children = Append(kids, NewId(heap))
                     /\ out.heap[NewId(heap)].value = value
                ELSE /\ out.status = "IndexOutOfRange"
                     /\ out.heap = heap

\* A general insert appended a second child to a node.
C10_Witness ==
  /\ last.op = "insert_general"
  /\ last.status = "ok"
  /\ \E n \in DOMAIN heap :
       Len(heap[n].children) = 2 /\ heap[n].children[2] = last.node

HeldOnce(n) == \A m \in LiveNodes : m # n => heap[m].value # heap[n].value

\* C12: in a tree built by binary inserts, for a value v held by exactly one
\* node, which is not the root, delete_node(root, v) returns and find_node
\* on the tree it returns gives None for v.
C12_DeleteThenFind ==
  BuiltBinary =>
    \A n \in LiveNodes \ {root} :
      HeldOnce(n) =>
        LET out == DeleteNode(heap, root, heap[n].value)
            found == FindNode(out.heap, out.root, heap[n].value)
        IN /\ out.status = "ok"
           /\ found.status = "ok"
           /\ found.node = NULL

\* ----------------------------------------------------------------- C13
Cleared(node) == node.children = <<>> /\ node.left = NULL /\ node.right = NULL

\* C13: after delete_tree(node) the node has an empty children list and no
\* left or right; a second call changes nothing; a call on None does nothing.
C13_DeleteTreeIdempotent ==
  LET once == DeleteTree(heap, root) IN
    /\ root # NULL => Cleared(once[root])
    /\ DeleteTree(once, root) = once
    /\ DeleteTree(heap, NULL) = heap

\* delete_tree has run on a root and left it a single cleared node.
C13_Witness ==
  /\ last.op = "delete_tree"
  /\ root # NULL
  /\ last.node = root
  /\ Cleared(heap[root])

\* ----------------------------------------------------------------- C14
\* The organisation example: a general tree with three children under one
\* node, built by general inserts alone and then subjected to one delete.
MaxGenNodes == 4

WideChars == {DigitChars[i] : i \in 1..(MaxGenNodes - 1)} \cup {Sep, "x"}

WidePaths == SeqsUpTo(WideChars, MaxGenLen)

InsertGeneralWide ==
  \E path \in WidePaths : \E value \in ValuesRead(path, TRUE) :
    LET out == AddNodeByPath(heap, root, path, value, TRUE) IN
      /\ Cardinality(DOMAIN out.heap) <= MaxGenNodes
      /\ heap' = out.heap
      /\ root' = root
      /\ last' = [op |-> "insert_general", status |-> out.status,
                  node |-> IF out.status = "ok" THEN NewId(heap) ELSE NULL]

BuiltGeneral == last.op \in {"create", "insert_general"}

NextGeneral ==
  \/ BuiltGeneral /\ InsertGeneralWide
  \/ BuiltGeneral /\ Delete

SpecGeneral == Init /\ [][NextGeneral]_vars

\* delete_node(root, value of the i-th child of p) removes exactly that entry
\* of p's children list and keeps every other entry of every list in place.
RemovesEntry(p, i) ==
  LET out == DeleteNode(heap, root, heap[heap[p].children[i]].value) IN
    /\ out.status = "ok"
    /\ out.root = root
    /\ out.removed = heap[p].children[i]
    /\ \A m \in DOMAIN heap :
         out.heap[m].children =
           IF m = p
             THEN [k \in 1..(Len(heap[p].children) - 1) |->
                     heap[p].children[IF k < i THEN k ELSE k + 1]]
             ELSE heap[m].children

\* C14 as stated: in a tree built by general inserts, deleting the value of
\* any child removes that child's entry and keeps the order of the others.
C14_AnyChildValue ==
  BuiltGeneral =>
    \A p \in LiveNodes : \A i \in 1..Len(heap[p].children) :
      RemovesEntry(p, i)

\* C14 amended: the same, for a child whose value no other node holds
\* (delete_node removes the first node in breadth-first order with the value).
C14_GeneralDeleteKeepsOrder ==
  BuiltGeneral =>
    \A p \in LiveNodes : \A i \in 1..Len(heap[p].children) :
      HeldOnce(heap[p].children[i]) => RemovesEntry(p, i)

\* The middle one of three children was deleted; the first and the third
\* remain, in that order.
C14_Witness ==
  /\ last.op = "delete"
  /\ last.status = "ok"
  /\ last.node = 3
  /\ root = 1
  /\ heap[root].children = <<2, 4>>

\* ----------------------------------------------------------------- C15
\* C15: when delete_node removes the child at index i of a parent's children
\* list, then if i = 0 the parent's left is the new children[0], or None when
\* the list is empty, and if i <= 1 the parent's right is the new
\* children[1], or None when the list has fewer than two entries.
C15_DeleteResyncsLeftRight ==
  BuiltByInserts =>
    \A value \in Values :
      LET out == DeleteNode(heap, root, value) IN
        \A p \in LiveNodes : \A i \in 0..(Len(heap[p].children) - 1) :
          ( /\ out.status = "ok"
            /\ out.removed # NULL
            /\ out.removed = heap[p].children[i + 1]
            /\ out.heap[p].children # heap[p].children )
          => LET kids == out.heap[p].children IN
               /\ i = 0 => out.heap[p].left =
                             IF Len(kids) >= 1 THEN kids[1] ELSE NULL
               /\ i <= 1 => out.heap[p].right =
                              IF Len(kids) >= 2 THEN kids[2] ELSE NULL

\* ----------------------------------------------------------------- C17
\* C17: edit_node(root, old, new) returns True exactly when
\* find_node(root, old) returns a node; then that node's value is new and no
\* other value and no left, right or children of any node has changed; when
\* it returns False the tree is unchanged.
C17_EditChangesOneValue ==
  \A old_value \in Values, new_value \in Values :
    LET found == FindNode(heap, root, old_value)
        out == EditNode(heap, root, old_value, new_value)
    IN /\ out.ret <=> (found.status = "ok" /\ found.node # NULL)
       /\ out.ret =>
            /\ DOMAIN out.heap = DOMAIN heap
            /\ out.heap[found.node].value = new_value
            /\ \A n \in DOMAIN heap :
                 /\ n # found.node => out.heap[n].value = heap[n].value
                 /\ out.heap[n].left = heap[n].left
                 /\ out.heap[n].right = heap[n].right
                 /\ out.heap[n].children = heap[n].children
       /\ ~out.ret => out.heap = heap

\* An edit has rewritten one node below the root of a three-node tree whose
\* two other nodes hold other values.
C17_Witness ==
  /\ last.op = "edit"
  /\ last.status = "ok"
  /\ last.node \in LiveNodes \ {root}
  /\ \E n \in LiveNodes \ {last.node} : \E m \in LiveNodes \ {last.node, n} :
       heap[n].value # heap[last.node].value /\ heap[m].value # heap[last.node].value

\* ----------------------------------------------------------------- C18
\* Binary paths one step longer than the ones the insert actions use.
LongBinPaths == SeqsUpTo(BinChars, MaxBinLen + 1)

IsDirection(c) == c \in {"L", "R", "l", "r"}

HasInvalidDirection(path) == \E i \in 1..Len(path) : ~IsDirection(path[i])

\* The steps of path before its first character that is not a direction.
BeforeInvalid(path) ==
  SubSeq(path, 1,
         (CHOOSE i \in 1..Len(path) :
            ~IsDirection(path[i]) /\ \A j \in 1..(i - 1) : IsDirection(path[j])) - 1)

\* C18 as stated: a binary insert on a root that is not None with a path that
\* contains a character other than L, R, l, r fails with InvalidDirection,
\* for every tree and every position of that character.
C18_AlwaysInvalidDirection ==
  root # NULL =>
    \A path \in LongBinPaths : \A value \in Values :
      HasInvalidDirection(path) =>
        AddNodeByPath(heap, root, path, value, FALSE).status = "InvalidDirection"

\* C18 amended: such an insert fails and leaves the tree unchanged; it fails
\* with InvalidDirection when every step before the first such character
\* leads to an existing child, and with PathBroken when one of them does not.
C18_FirstFailingStep ==
  root # NULL =>
    \A path \in LongBinPaths : \A value \in Values :
      HasInvalidDirection(path) =>
        LET out == AddNodeByPath(heap, root, path, value, FALSE) IN
          /\ out.heap = heap
          /\ out.status = IF Walk(heap, root, BeforeInvalid(path)) # NULL
                            THEN "InvalidDirection" ELSE "PathBroken"

\* An insert was rejected for its direction on a tree that has a node two
\* levels below the root.
C18_Witness ==
  /\ last.op = "insert_binary"
  /\ last.status = "InvalidDirection"
  /\ \E n \in LiveNodes \ {root} : heap[n].left # NULL \/ heap[n].right # NULL

\* ----------------------------------------------------------------- C20
\* C20: in a tree built by binary inserts with pairwise distinct values,
\* after delete_node(root, v) has removed the node at a path p below the
\* root, a binary insert of any value w at p succeeds and walking p from the
\* root then reaches a node with value w.
C20_DeleteFreesSlot ==
  (BuiltBinary /\ DistinctValues) =>
    \A p \in Positions \ {<<>>} :
      Walk(heap, root, p) # NULL =>
        LET out == DeleteNode(heap, root, heap[Walk(heap, root, p)].value)
            after == Collect(out.heap, out.root)
        IN /\ out.status = "ok"
           /\ \A w \in Values :
                LET ins == AddNodeByPath(after, out.root, p, w, FALSE) IN
                  /\ ins.status = "ok"
                  /\ Walk(ins.heap, out.root, p) # NULL
                  /\ ins.heap[Walk(ins.heap, out.root, p)].value = w

\* ------------------------------------------- the search loops, step by step
\* find_node and delete_node one iteration of "while queue" at a time. The
\* call's frame is kept in last: the value searched, the deque, the nodes
\* dequeued so far, and the node returned (find) or unlinked (delete).
Frame(op, status, node, value, queue) ==
  [op |-> op, status |-> status, node |-> node, value |-> value,
   queue |-> queue, visited |-> <<>>]

\* What one iteration appends to the deque in find_node.
FindExtend(h, current) ==
  IF Len(h[current].children) > 0 THEN h[current].children
  ELSE (IF h[current].left # NULL THEN <<h[current].left>> ELSE <<>>)
         \o (IF h[current].right # NULL THEN <<h[current].right>> ELSE <<>>)

FindStart ==
  \E value \in Values :
    /\ UNCHANGED <<heap, root>>
    /\ last' = IF root = NULL
                 THEN Frame("find_loop", "ok", NULL, value, <<>>)
                 ELSE Frame("find_loop", "running", NULL, value, <<root>>)

FindStep ==
  /\ last.op = "find_loop"
  /\ last.status = "running"
  /\ UNCHANGED <<heap, root>>
  /\ IF last.queue = <<>> THEN last' = [last EXCEPT !.status = "ok"]
     ELSE LET current == Head(last.queue)
              popped == [last EXCEPT !.queue = Tail(@),
                                     !.visited = Append(@, current)]
          IN IF current = NULL
               THEN last' = [popped EXCEPT !.status = "AttributeError"]
             ELSE IF heap[current].value = last.value
               THEN last' = [popped EXCEPT !.status = "ok", !.node = current]
             ELSE last' = [popped EXCEPT !.queue = @ \o FindExtend(heap, current)]

DeleteStart ==
  \E value \in Values :
    IF root = NULL
      THEN /\ UNCHANGED <<heap, root>>
           /\ last' = Frame("delete_loop", "ok", NULL, value, <<>>)
    ELSE IF heap[root].value = value
      THEN /\ heap' = Collect(heap, NULL)
           /\ root' = NULL
           /\ last' = Frame("delete_loop", "ok", root, value, <<>>)
    ELSE /\ UNCHANGED <<heap, root>>
         /\ last' = Frame("delete_loop", "running", NULL, value, <<root>>)

DeleteStep ==
  /\ last.op = "delete_loop"
  /\ last.status = "running"
  /\ root' = root
  /\ IF last.queue = <<>>
       THEN heap' = heap /\ last' = [last EXCEPT !.status = "ok"]
     ELSE LET current == Head(last.queue)
              kids == heap[current].children
              stop == StopAt(heap, kids, last.value)
              popped == [last EXCEPT !.queue = Tail(@),
                                     !.visited = Append(@, current)]
          IN IF stop # 0 /\ kids[stop] = NULL
               THEN /\ heap' = heap
                    /\ last' = [popped EXCEPT !.status = "AttributeError"]
             ELSE IF stop # 0
               THEN /\ heap' = Collect([heap EXCEPT ![current] = Resync(@, stop - 1)], root)
                    /\ last' = [popped EXCEPT !.status = "ok", !.node = kids[stop]]
             ELSE IF Len(kids) > 0
               THEN /\ heap' = heap
                    /\ last' = [popped EXCEPT !.queue = @ \o kids]
             ELSE IF heap[current].left # NULL
                       /\ heap[heap[current].left].value = last.value
               THEN /\ heap' = Collect([heap EXCEPT ![current].left = NULL], root)
                    /\ last' = [popped EXCEPT !.status = "ok",
                                              !.node = heap[current].left]
             ELSE IF heap[current].right # NULL
                       /\ heap[heap[current].right].value = last.value
               THEN /\ heap' = Collect([heap EXCEPT ![current].right = NULL], root)
                    /\ last' = [popped EXCEPT !.status = "ok",
                                              !.node = heap[current].right]
             ELSE /\ heap' = heap
                  /\ last' = [popped EXCEPT !.queue = @ \o FindExtend(heap, current)]

InLoop == last.op \in {"find_loop", "delete_loop"}

\* Trees reached by inserts, edits and deletes; then one search, step by step.
NextTraversal ==
  \/ ~InLoop /\ InsertBinary
  \/ ~InLoop /\ InsertGeneral
  \/ ~InLoop /\ Edit
  \/ ~InLoop /\ Delete
  \/ ~InLoop /\ FindStart
  \/ ~InLoop /\ DeleteStart
  \/ FindStep
  \/ DeleteStep

SpecTraversal == Init /\ [][NextTraversal]_vars

\* The interpreter runs a loop it has entered: each iteration is taken.
FairTraversal == SpecTraversal /\ WF_vars(FindStep) /\ WF_vars(DeleteStep)

\* ----------------------------------------------------------------- C19
\* A call that has entered its loop leaves it.
TraversalsStop == (last.status = "running") ~> (last.status # "running")

\* C19: on every tree reached by inserts, edits and deletes, find_node and
\* delete_node terminate for every value, by the deque becoming empty or by
\* a match being returned: a call dequeues at most one entry per node of the
\* tree and leaves its loop in no other way than those two.
C19_TraversalsTerminate ==
  InLoop =>
    /\ Len(last.visited) <= MaxNodes
    /\ last.status \in {"running", "ok"}

\* ----------------------------------------------------------------- C16
\* The documents a file can hold for a binary tree of at most MaxNodes
\* nodes: a dict with 'value' and, optionally, 'left' and 'right' subtrees.
RECURSIVE DocsOfDepth(_)
DocsOfDepth(d) ==
  IF d = 0 THEN {}
  ELSE LET sub == DocsOfDepth(d - 1) \cup {NoneDoc} IN
    {Dict(("value" :> [kind |-> "scalar", v |-> v])
          @@ (IF l # NoneDoc THEN "left" :> l ELSE <<>>)
          @@ (IF r # NoneDoc THEN "right" :> r ELSE <<>>)) :
       v \in Values, l \in sub, r \in sub}

Docs ==
  {doc \in DocsOfDepth(MaxNodes) :
     Cardinality(DOMAIN DictToTree(EmptyHeap, doc).heap) <= MaxNodes}

\* root = build_tree_from_yaml(f)
InitLoaded ==
  \E doc \in Docs :
    LET out == DictToTree(EmptyHeap, doc) IN
      /\ heap = out.heap
      /\ root = out.node
      /\ last = [op |-> "reload", status |-> "ok", node |-> out.node]

BuiltLoaded == last.op \in {"reload", "insert_binary"}

\* A loaded tree, extended by binary inserts; then one find, step by step.
NextLoaded ==
  \/ BuiltLoaded /\ InsertBinary
  \/ BuiltLoaded /\ FindStart
  \/ FindStep

SpecLoaded == InitLoaded /\ [][NextLoaded]_vars

\* C16: on a tree loaded from a document and extended by binary inserts,
\* find_node returns a node with value v for every value v held by a node
\* reachable from the root through left, right or children, and a search
\* dequeues no node twice and, when it finds no match, every reachable node.
C16_FindReachesEveryNode ==
  /\ BuiltLoaded =>
       \A n \in LiveNodes :
         LET found == FindNode(heap, root, heap[n].value) IN
           /\ found.status = "ok"
           /\ found.node # NULL
           /\ heap[found.node].value = heap[n].value
  /\ last.op = "find_loop" =>
       /\ \A i \in 1..Len(last.visited) : \A j \in 1..Len(last.visited) :
            i # j => last.visited[i] # last.visited[j]
       /\ (last.status = "ok" /\ last.node = NULL) =>
            \A n \in LiveNodes : \E i \in 1..Len(last.visited) : last.visited[i] = n

====
